---- MODULE Spec2Model ----
(***************************************************************************)
(* A persistent hash array mapped trie (HAMT): the collision list (LNode,  *)
(* src/src/node/lnode.rs) and the trie front end (src/src/hash_trie.rs),   *)
(* over the flag arithmetic, the singleton (SNode), the compressed branch  *)
(* (CNode) and the node sum (MNode) that spec.md describes in 3 and 4.     *)
(*                                                                         *)
(* Nodes are immutable values held by Arc, so a node is a record and a     *)
(* trie is the record of its root.  A key is a number, hashed by hasher;   *)
(* a value is one of Vals.  Every operation is an operator computed as the *)
(* code computes it; an action applies one operation to the trie the       *)
(* client holds and keeps the call and its result.                         *)
(***************************************************************************)
EXTENDS Integers, Sequences, FiniteSets, TLC

VARIABLES
    trie,     \* the HashTrie the client holds
    call,     \* the last call: its name, its arguments and what it returned
    hist,     \* while only inserts ran: the value last inserted for each key
    other     \* a second HashTrie the client holds, the right operand of
              \* joint_transmute

vars == <<trie, call, hist, other>>

----------------------------------------------------------------------------
(* Bounds of the model *)

\* keys are 1..NumKeys
NumKeys == 5
\* bit width of the hash word H
HashBits == 3
\* log2 of the fan-out W (the bit width of the flag word F)
LogW == 1
\* A chain holds at most one entry per key: a loop over a chain that has
\* pushed more entries than there are keys has stopped advancing.
MaxRights == NumKeys + 1

Keys == 1 .. NumKeys
Vals == {"a", "b"}
W == 2 ^ LogW

\* The hasher M: deterministic, equal keys hash equal.  Keys 1, 2, 3 share
\* one full hash; key 4 differs from them in the top bit only; key 5 differs
\* in the lowest bit.
HashTable == <<0, 0, 0, 4, 1, 2>>
hasher(k) == HashTable[((k - 1) % Len(HashTable)) + 1] % (2 ^ HashBits)

None == [t |-> "None"]
Some(x) == [t |-> "Some", v |-> x]

----------------------------------------------------------------------------
(* Flag arithmetic (spec.md 3, 4.1) *)

Flag_new_at_depth(h, d) ==
    IF d * LogW >= HashBits THEN None
    ELSE Some([hash_value |-> h, depth |-> d])

Flag_new(h) == [hash_value |-> h, depth |-> 0]

Flag_index(f) == (f.hash_value \div (W ^ f.depth)) % W

Flag_mask(f) == 2 ^ Flag_index(f)

Flag_next(f) == Flag_new_at_depth(f.hash_value, f.depth + 1)

RECURSIVE popcount(_)
popcount(n) == IF n = 0 THEN 0 ELSE (n % 2) + popcount(n \div 2)

\* bitmap & mask != 0
bit_present(bitmap, mask) == (bitmap \div mask) % 2 = 1

\* popcount(bitmap & (mask - 1))
array_index(bitmap, mask) == popcount(bitmap % mask)

----------------------------------------------------------------------------
(* Results *)

NotFound == [t |-> "NotFound"]
Found(k, v) == [t |-> "Found", key |-> k, value |-> v]
Panic == [t |-> "Panic"]

----------------------------------------------------------------------------
(* SNode (spec.md 4.2) *)

SNode_new(k, v) == [t |-> "S", key |-> k, value |-> v]

snode_find(this, key) ==
    IF this.key = key THEN Found(this.key, this.value) ELSE NotFound

----------------------------------------------------------------------------
(* LNode (src/src/node/lnode.rs) *)

\* LNode_new taking the size of its tail for 1, as if next were an SNode
LNode_new_TailOfOne(k, v, next) ==
    [t |-> "L", key |-> k, value |-> v, next |-> next, size |-> 1 + 1]

LNode_new(k, v, next) ==
    [t |-> "L", key |-> k, value |-> v, next |-> next,
     size |-> 1 + (IF next.t = "L" THEN next.size ELSE 1)]

LNodeNext_key(this) == this.key

RECURSIVE LNode_find(_, _)
\* LNode_find looking at the head and at the entry after it only
LNode_find_TwoDeep(this, key) ==
    IF this.key = key THEN Found(this.key, this.value)
    ELSE snode_find(this.next, key)

LNode_find(this, key) ==
    IF this.key = key THEN Found(this.key, this.value)
    ELSE IF this.next.t = "L" THEN LNode_find(this.next, key)
    ELSE snode_find(this.next, key)

----------------------------------------------------------------------------
(* Results of insert and remove *)

Inserted(tag, node, prev) ==
    [t |-> tag, node |-> node, key |-> node.key, value |-> node.value,
     prev |-> prev]

InsertedC(cnode, k, v, prev) ==
    [t |-> "InsertedC", node |-> cnode, key |-> k, value |-> v, prev |-> prev]

Removed(tag, node, k, v) == [t |-> tag, node |-> node, key |-> k, value |-> v]

RemovedZ(k, v) == [t |-> "RemovedZ", key |-> k, value |-> v]

MNode_size(node) == IF node.t = "S" THEN 1 ELSE node.size

RECURSIVE SumSizes(_)
SumSizes(nodes) ==
    IF nodes = <<>> THEN 0 ELSE MNode_size(Head(nodes)) + SumSizes(Tail(nodes))

CNode_new(bitmap, nodes) ==
    [t |-> "C", bitmap |-> bitmap, nodes |-> nodes, size |-> SumSizes(nodes)]

\* the empty root
MNode_default == CNode_new(0, <<>>)

snode_remove(this, key) ==
    IF this.key = key THEN RemovedZ(this.key, this.value) ELSE NotFound

----------------------------------------------------------------------------
(* LNode: remove, insert *)

RECURSIVE remove_from_lnode(_, _)
\* remove_from_lnode removing the last entry of the chain when no key matches
remove_from_lnode_LastAnyway(this, key) ==
    IF this.key = key
    THEN IF this.next.t = "L"
         THEN Removed("RemovedL", this.next, this.key, this.value)
         ELSE Removed("RemovedS", this.next, this.key, this.value)
    ELSE IF this.next.t = "L"
         THEN LET r == remove_from_lnode(this.next, key) IN
              IF r.t = "NotFound" THEN NotFound
              ELSE Removed("RemovedL", LNode_new(this.key, this.value, r.node),
                           r.key, r.value)
         ELSE Removed("RemovedS", SNode_new(this.key, this.value),
                      this.next.key, this.next.value)

\* remove_from_lnode handing back the rebuilt tail without this entry
remove_from_lnode_DropThis(this, key) ==
    IF this.key = key
    THEN IF this.next.t = "L"
         THEN Removed("RemovedL", this.next, this.key, this.value)
         ELSE Removed("RemovedS", this.next, this.key, this.value)
    ELSE IF this.next.t = "L"
         THEN LET r == remove_from_lnode(this.next, key) IN
              IF r.t = "NotFound" THEN NotFound
              ELSE r
         ELSE LET r == snode_remove(this.next, key) IN
              IF r.t = "NotFound" THEN NotFound
              ELSE Removed("RemovedS", SNode_new(this.key, this.value),
                           r.key, r.value)

remove_from_lnode(this, key) ==
    IF this.key = key
    THEN IF this.next.t = "L"
         THEN Removed("RemovedL", this.next, this.key, this.value)
         ELSE Removed("RemovedS", this.next, this.key, this.value)
    ELSE IF this.next.t = "L"
         THEN LET r == remove_from_lnode(this.next, key) IN
              IF r.t = "NotFound" THEN NotFound
              ELSE Removed("RemovedL", LNode_new(this.key, this.value, r.node),
                           r.key, r.value)
         ELSE LET r == snode_remove(this.next, key) IN
              IF r.t = "NotFound" THEN NotFound
              ELSE Removed("RemovedS", SNode_new(this.key, this.value),
                           r.key, r.value)

lnode_remove(this, key) == remove_from_lnode(this, key)

\* Two nodes whose flags are of different hashes become a CNode at the depth
\* of the flags, or a chain of single-child CNodes down to the depth where
\* the flags part (spec.md 4.3, 4.4).
RECURSIVE cnode_lift_to_cnode_and_insert(_, _, _, _)
cnode_lift_to_cnode_and_insert(x, x_flag, y, y_flag) ==
    IF Flag_index(x_flag) = Flag_index(y_flag)
    THEN CNode_new(Flag_mask(x_flag),
                   <<cnode_lift_to_cnode_and_insert(x, Flag_next(x_flag).v,
                                                    y, Flag_next(y_flag).v)>>)
    ELSE CNode_new(Flag_mask(x_flag) + Flag_mask(y_flag),
                   IF Flag_mask(x_flag) < Flag_mask(y_flag)
                   THEN <<x, y>> ELSE <<y, x>>)

\* lift_to_cnode_and_insert putting a new collider in the place of the head
\* of a chain instead of before it
lift_to_cnode_and_insert_OverHead(this, key, value, key_flag) ==
    LET this_hash == hasher(LNodeNext_key(this)) IN
    IF this_hash = key_flag.hash_value
    THEN Inserted("InsertedL",
                  LNode_new(key, value,
                            IF this.t = "L" THEN this.next ELSE this), None)
    ELSE LET this_flag == Flag_new_at_depth(this_hash, key_flag.depth)
             snode == SNode_new(key, value) IN
         IF this_flag = None THEN Panic
         ELSE InsertedC(cnode_lift_to_cnode_and_insert(this, this_flag.v,
                                                       snode, key_flag),
                        key, value, None)

\* lift_to_cnode_and_insert chaining the new key without comparing hashes
lift_to_cnode_and_insert_AnyHash(this, key, value, key_flag) ==
    Inserted("InsertedL", LNode_new(key, value, this), None)

lift_to_cnode_and_insert(this, key, value, key_flag) ==
    LET this_hash == hasher(LNodeNext_key(this)) IN
    IF this_hash = key_flag.hash_value
    THEN Inserted("InsertedL", LNode_new(key, value, this), None)
    ELSE LET this_flag == Flag_new_at_depth(this_hash, key_flag.depth)
             snode == SNode_new(key, value) IN
         IF this_flag = None THEN Panic
         ELSE InsertedC(cnode_lift_to_cnode_and_insert(this, this_flag.v,
                                                       snode, key_flag),
                        key, value, None)

\* lnode_insert answering Found with the new value instead of the stored one
lnode_insert_FoundNew(this, key, value, key_flag, replace) ==
    LET f == LNode_find(this, key) IN
    IF f.t = "Found"
    THEN IF replace
         THEN LET r == remove_from_lnode(this, key) IN
              IF r.t = "NotFound" THEN Panic
              ELSE Inserted("InsertedL", LNode_new(key, value, r.node),
                            Some(<<r.key, r.value>>))
         ELSE Found(f.key, value)
    ELSE IF key_flag = None THEN Panic
         ELSE lift_to_cnode_and_insert(this, key, value, key_flag.v)

\* lnode_insert replacing an entry without reporting the one it replaced
lnode_insert_NoPrev(this, key, value, key_flag, replace) ==
    LET f == LNode_find(this, key) IN
    IF f.t = "Found"
    THEN IF replace
         THEN LET r == remove_from_lnode(this, key) IN
              IF r.t = "NotFound" THEN Panic
              ELSE Inserted("InsertedL", LNode_new(key, value, r.node), None)
         ELSE Found(f.key, f.value)
    ELSE IF key_flag = None THEN Panic
         ELSE lift_to_cnode_and_insert(this, key, value, key_flag.v)

\* lnode_insert replacing an entry without removing the old one first
lnode_insert_NoRemove(this, key, value, key_flag, replace) ==
    LET f == LNode_find(this, key) IN
    IF f.t = "Found"
    THEN IF replace
         THEN Inserted("InsertedL", LNode_new(key, value, this),
                       Some(<<f.key, f.value>>))
         ELSE Found(f.key, f.value)
    ELSE IF key_flag = None THEN Panic
         ELSE lift_to_cnode_and_insert(this, key, value, key_flag.v)

lnode_insert(this, key, value, key_flag, replace) ==
    LET f == LNode_find(this, key) IN
    IF f.t = "Found"
    THEN IF replace
         THEN LET r == remove_from_lnode(this, key) IN
              IF r.t = "NotFound" THEN Panic
              ELSE Inserted("InsertedL", LNode_new(key, value, r.node),
                            Some(<<r.key, r.value>>))
         ELSE Found(f.key, f.value)
    ELSE IF key_flag = None THEN Panic
         ELSE lift_to_cnode_and_insert(this, key, value, key_flag.v)

----------------------------------------------------------------------------
(* SNode: insert (spec.md 4.4, slot occupied by an SNode; 9, hash          *)
(* exhaustion)                                                             *)

snode_insert(this, key, value, key_flag, replace) ==
    IF this.key = key
    THEN IF replace
         THEN Inserted("InsertedS", SNode_new(key, value),
                       Some(<<this.key, this.value>>))
         ELSE Found(this.key, this.value)
    ELSE IF key_flag = None
         THEN Inserted("InsertedL", LNode_new(key, value, this), None)
         ELSE lift_to_cnode_and_insert(this, key, value, key_flag.v)

----------------------------------------------------------------------------
(* CNode and MNode: find, insert, remove (spec.md 4.4, 4.5) *)

SeqInsert(s, i, x) == SubSeq(s, 1, i - 1) \o <<x>> \o SubSeq(s, i, Len(s))

SeqRemove(s, i) == SubSeq(s, 1, i - 1) \o SubSeq(s, i + 1, Len(s))

RECURSIVE MNode_find(_, _, _)
cnode_find(this, key, flag) ==
    IF ~bit_present(this.bitmap, Flag_mask(flag.v)) THEN NotFound
    ELSE MNode_find(this.nodes[array_index(this.bitmap, Flag_mask(flag.v)) + 1],
                    key, Flag_next(flag.v))

MNode_find(node, key, flag) ==
    CASE node.t = "C" -> cnode_find(node, key, flag)
      [] node.t = "L" -> LNode_find(node, key)
      [] node.t = "S" -> snode_find(node, key)

RECURSIVE MNode_insert(_, _, _, _, _)
cnode_insert(this, key, value, flag, replace) ==
    LET mask == Flag_mask(flag.v)
        i == array_index(this.bitmap, mask) + 1 IN
    IF ~bit_present(this.bitmap, mask)
    THEN InsertedC(CNode_new(this.bitmap + mask,
                             SeqInsert(this.nodes, i, SNode_new(key, value))),
                   key, value, None)
    ELSE LET r == MNode_insert(this.nodes[i], key, value, Flag_next(flag.v),
                               replace) IN
         IF r.t \in {"Found", "Panic"} THEN r
         ELSE InsertedC(CNode_new(this.bitmap,
                                  [this.nodes EXCEPT ![i] = r.node]),
                        r.key, r.value, r.prev)

MNode_insert(node, key, value, flag, replace) ==
    CASE node.t = "C" -> cnode_insert(node, key, value, flag, replace)
      [] node.t = "L" -> lnode_insert(node, key, value, flag, replace)
      [] node.t = "S" -> snode_insert(node, key, value, flag, replace)

\* The node-shape rewrite rule: a CNode below the root that is left with one
\* child which is an SNode or an LNode is replaced by that child.
cnode_removed(bitmap, nodes, depth, k, v) ==
    IF depth > 0 /\ Len(nodes) = 1 /\ nodes[1].t \in {"S", "L"}
    THEN Removed(IF nodes[1].t = "S" THEN "RemovedS" ELSE "RemovedL",
                 nodes[1], k, v)
    ELSE Removed("RemovedC", CNode_new(bitmap, nodes), k, v)

RECURSIVE MNode_remove(_, _, _)
cnode_remove(this, key, flag) ==
    LET mask == Flag_mask(flag.v)
        i == array_index(this.bitmap, mask) + 1 IN
    IF ~bit_present(this.bitmap, mask) THEN NotFound
    ELSE LET r == MNode_remove(this.nodes[i], key, Flag_next(flag.v)) IN
         CASE r.t = "NotFound" -> NotFound
           [] r.t = "RemovedZ" ->
                IF Len(this.nodes) = 1 THEN RemovedZ(r.key, r.value)
                ELSE cnode_removed(this.bitmap - mask, SeqRemove(this.nodes, i),
                                   flag.v.depth, r.key, r.value)
           [] OTHER ->
                cnode_removed(this.bitmap, [this.nodes EXCEPT ![i] = r.node],
                              flag.v.depth, r.key, r.value)

MNode_remove(node, key, flag) ==
    CASE node.t = "C" -> cnode_remove(node, key, flag)
      [] node.t = "L" -> lnode_remove(node, key)
      [] node.t = "S" -> snode_remove(node, key)

----------------------------------------------------------------------------
(* visit: the calls of op it makes, in order, each as <<key, value>> *)

snode_visit(this) == <<<<this.key, this.value>>>>

RECURSIVE LNode_visit(_)
\* LNode_visit calling op on this entry and on the one after it only
LNode_visit_NoTail(this) ==
    <<<<this.key, this.value>>>> \o <<<<this.next.key, this.next.value>>>>

LNode_visit(this) ==
    <<<<this.key, this.value>>>>
        \o (IF this.next.t = "L" THEN LNode_visit(this.next)
            ELSE snode_visit(this.next))

RECURSIVE MNode_visit(_)
RECURSIVE cnode_visit_from(_, _)
cnode_visit_from(this, i) ==
    IF i > Len(this.nodes) THEN <<>>
    ELSE MNode_visit(this.nodes[i]) \o cnode_visit_from(this, i + 1)

cnode_visit(this) == cnode_visit_from(this, 1)

MNode_visit(node) ==
    CASE node.t = "C" -> cnode_visit(node)
      [] node.t = "L" -> LNode_visit(node)
      [] node.t = "S" -> snode_visit(node)

----------------------------------------------------------------------------
(* HashTrie (src/src/hash_trie.rs) *)

HashTrie_singleton(mnode) == [root |-> mnode]

HashTrie_new == [root |-> MNode_default]

HashTrie_default == HashTrie_new

HashTrie_size(self) == MNode_size(self.root)

NotFoundErr == [t |-> "Err", error |-> "NotFound"]

HashTrie_find(self, key) ==
    LET r == MNode_find(self.root, key, Some(Flag_new(hasher(key)))) IN
    IF r.t = "NotFound" THEN NotFoundErr
    ELSE [t |-> "Ok", key |-> r.key, value |-> r.value]

HashTrie_insert(self, key, value, replace) ==
    LET flag == Flag_new(hasher(key))
        r == MNode_insert(self.root, key, value, Some(flag), replace) IN
    CASE r.t = "Found" -> [t |-> "Err", key |-> r.key, value |-> r.value]
      [] r.t = "Panic" -> Panic
      [] OTHER -> [t |-> "Ok", trie |-> HashTrie_singleton(r.node),
                   key |-> r.key, value |-> r.value, prev |-> r.prev]

HashTrie_visit(self) == MNode_visit(self.root)

HashTrie_remove(self, key) ==
    LET r == MNode_remove(self.root, key, Some(Flag_new(hasher(key)))) IN
    CASE r.t = "NotFound" -> NotFoundErr
      [] r.t = "RemovedZ" -> [t |-> "Ok", trie |-> HashTrie_default,
                              key |-> r.key, value |-> r.value]
      [] OTHER -> [t |-> "Ok", trie |-> HashTrie_singleton(r.node),
                   key |-> r.key, value |-> r.value]

----------------------------------------------------------------------------
(* The callbacks a client passes to transform.  A reduction is the sequence *)
(* of the keys reduced, reduce_op joins two of them, and the default is    *)
(* the empty sequence: the reduction returned shows which entries op was   *)
(* called on, and in which order they were combined.                       *)

ReduceDefault == <<>>

reduce(reduce_op, a, b) == IF reduce_op = "concat_swapped" THEN b \o a ELSE a \o b

MapUnchanged(r) == [t |-> "Unchanged", r |-> r]
MapTransformed(v, r) == [t |-> "Transformed", value |-> v, r |-> r]
MapRemoved(r) == [t |-> "Removed", r |-> r]

\* what a transform callback answers for an entry it picks ("hit")
Outs == {[t |-> "Unchanged"], [t |-> "Removed"]}
            \cup {[t |-> "Transformed", value |-> v] : v \in Vals}

\* a callback picks every entry, the entry of one key, or all but that one;
\* the entries it does not pick are Unchanged.  A "keyval" callback gives
\* one key a new value, leaves a second key Unchanged and removes the rest.
TransformOps ==
    {[pick |-> "all", out |-> o] : o \in Outs}
      \cup {[pick |-> "key", key |-> k, out |-> o] :
                k \in Keys, o \in {[t |-> "Removed"],
                                   [t |-> "Transformed", value |-> "b"]}}
      \cup {[pick |-> "notkey", key |-> k, out |-> [t |-> "Removed"]] :
                k \in Keys}
      \cup {[pick |-> "keyval", key |-> p[1], keep |-> p[2],
              out |-> [t |-> "Transformed", value |-> "b"]] :
                p \in {q \in Keys \X Keys : q[1] # q[2]}}

Picks(f, k) ==
    CASE f.pick = "all" -> TRUE
      [] f.pick = "key" -> k = f.key
      [] f.pick = "notkey" -> k # f.key

transform_op(f, k, v) ==
    IF f.pick = "keyval"
    THEN (CASE k = f.key -> MapTransformed(f.out.value, <<k>>)
            [] k = f.keep -> MapUnchanged(<<k>>)
            [] OTHER -> MapRemoved(<<k>>))
    ELSE IF ~Picks(f, k) \/ f.out.t = "Unchanged" THEN MapUnchanged(<<k>>)
    ELSE IF f.out.t = "Removed" THEN MapRemoved(<<k>>)
    ELSE MapTransformed(f.out.value, <<k>>)

----------------------------------------------------------------------------
(* transform *)

TUnchanged(r) == [t |-> "Unchanged", r |-> r]
TNode(tag, node, r) == [t |-> tag, node |-> node, r |-> r]
TRemoved(r) == [t |-> "Removed", r |-> r]

snode_transform(this, op) ==
    LET result == transform_op(op, this.key, this.value) IN
    CASE result.t = "Unchanged" -> TUnchanged(result.r)
      [] result.t = "Transformed" ->
            TNode("S", SNode_new(this.key, result.value), result.r)
      [] result.t = "Removed" -> TRemoved(result.r)

\* transform_result building a new LNode where entry and tail are Unchanged
transform_result_Rebuild(this, result, next, reduce_op) ==
    LET r == reduce(reduce_op, result.r, next.r) IN
    CASE result.t = "Unchanged" ->
            (CASE next.t = "Unchanged" ->
                    TNode("L", LNode_new(this.key, this.value, this.next), r)
               [] next.t \in {"L", "S"} ->
                    TNode("L", LNode_new(this.key, this.value, next.node), r)
               [] next.t = "Removed" ->
                    TNode("S", SNode_new(this.key, this.value), r))
      [] result.t = "Transformed" ->
            (CASE next.t = "Unchanged" ->
                    TNode("L", LNode_new(this.key, result.value, this.next), r)
               [] next.t \in {"L", "S"} ->
                    TNode("L", LNode_new(this.key, result.value, next.node), r)
               [] next.t = "Removed" ->
                    TNode("S", SNode_new(this.key, result.value), r))
      [] result.t = "Removed" ->
            (CASE next.t = "Unchanged" -> TNode(this.next.t, this.next, r)
               [] next.t \in {"L", "S"} -> TNode(next.t, next.node, r)
               [] next.t = "Removed" -> TRemoved(r))

\* transform_result leaving the reduction of a removed entry out
transform_result_DropReduction(this, result, next, reduce_op) ==
    LET r == reduce(reduce_op, result.r, next.r) IN
    CASE result.t = "Unchanged" ->
            (CASE next.t = "Unchanged" -> TUnchanged(r)
               [] next.t \in {"L", "S"} ->
                    TNode("L", LNode_new(this.key, this.value, next.node), r)
               [] next.t = "Removed" ->
                    TNode("S", SNode_new(this.key, this.value), r))
      [] result.t = "Transformed" ->
            (CASE next.t = "Unchanged" ->
                    TNode("L", LNode_new(this.key, result.value, this.next), r)
               [] next.t \in {"L", "S"} ->
                    TNode("L", LNode_new(this.key, result.value, next.node), r)
               [] next.t = "Removed" ->
                    TNode("S", SNode_new(this.key, result.value), r))
      [] result.t = "Removed" ->
            (CASE next.t = "Unchanged" -> TNode(this.next.t, this.next, next.r)
               [] next.t \in {"L", "S"} -> TNode(next.t, next.node, next.r)
               [] next.t = "Removed" -> TRemoved(next.r))

\* transform_result keeping the old value of a Transformed entry whose tail
\* changed
transform_result_OldValue(this, result, next, reduce_op) ==
    LET r == reduce(reduce_op, result.r, next.r) IN
    CASE result.t = "Unchanged" ->
            (CASE next.t = "Unchanged" -> TUnchanged(r)
               [] next.t \in {"L", "S"} ->
                    TNode("L", LNode_new(this.key, this.value, next.node), r)
               [] next.t = "Removed" ->
                    TNode("S", SNode_new(this.key, this.value), r))
      [] result.t = "Transformed" ->
            (CASE next.t = "Unchanged" ->
                    TNode("L", LNode_new(this.key, result.value, this.next), r)
               [] next.t \in {"L", "S"} ->
                    TNode("L", LNode_new(this.key, this.value, next.node), r)
               [] next.t = "Removed" ->
                    TNode("S", SNode_new(this.key, result.value), r))
      [] result.t = "Removed" ->
            (CASE next.t = "Unchanged" -> TNode(this.next.t, this.next, r)
               [] next.t \in {"L", "S"} -> TNode(next.t, next.node, r)
               [] next.t = "Removed" -> TRemoved(r))

transform_result(this, result, next, reduce_op) ==
    LET r == reduce(reduce_op, result.r, next.r) IN
    CASE result.t = "Unchanged" ->
            (CASE next.t = "Unchanged" -> TUnchanged(r)
               [] next.t \in {"L", "S"} ->
                    TNode("L", LNode_new(this.key, this.value, next.node), r)
               [] next.t = "Removed" ->
                    TNode("S", SNode_new(this.key, this.value), r))
      [] result.t = "Transformed" ->
            (CASE next.t = "Unchanged" ->
                    TNode("L", LNode_new(this.key, result.value, this.next), r)
               [] next.t \in {"L", "S"} ->
                    TNode("L", LNode_new(this.key, result.value, next.node), r)
               [] next.t = "Removed" ->
                    TNode("S", SNode_new(this.key, result.value), r))
      [] result.t = "Removed" ->
            (CASE next.t = "Unchanged" -> TNode(this.next.t, this.next, r)
               [] next.t \in {"L", "S"} -> TNode(next.t, next.node, r)
               [] next.t = "Removed" -> TRemoved(r))

RECURSIVE lnode_transform(_, _, _)
lnode_transform(this, reduce_op, op) ==
    LET next == IF this.next.t = "L"
                THEN lnode_transform(this.next, reduce_op, op)
                ELSE snode_transform(this.next, op) IN
    transform_result(this, transform_op(op, this.key, this.value), next,
                     reduce_op)

\* The slot (0 .. W-1) of each child of a CNode, least significant bit first.
RECURSIVE SlotsFrom(_, _)
SlotsFrom(bitmap, i) ==
    IF bitmap = 0 THEN <<>>
    ELSE (IF bitmap % 2 = 1 THEN <<i>> ELSE <<>>)
            \o SlotsFrom(bitmap \div 2, i + 1)

RECURSIVE SumMasks(_, _, _)
SumMasks(slots, results, i) ==
    IF i > Len(slots) THEN 0
    ELSE (IF results[i].t = "Removed" THEN 0 ELSE 2 ^ slots[i])
            + SumMasks(slots, results, i + 1)

RECURSIVE KeptNodes(_, _, _)
KeptNodes(nodes, results, i) ==
    IF i > Len(nodes) THEN <<>>
    ELSE (CASE results[i].t = "Removed" -> <<>>
            [] results[i].t = "Unchanged" -> <<nodes[i]>>
            [] OTHER -> <<results[i].node>>)
            \o KeptNodes(nodes, results, i + 1)

RECURSIVE Reduced(_, _, _)
Reduced(results, reduce_op, i) ==
    IF i = 0 THEN ReduceDefault
    ELSE reduce(reduce_op, Reduced(results, reduce_op, i - 1), results[i].r)

RECURSIVE MNode_transform_at(_, _, _, _)
cnode_transform(this, reduce_op, op, depth) ==
    LET results == [i \in 1 .. Len(this.nodes) |->
                        MNode_transform_at(this.nodes[i], reduce_op, op,
                                           depth + 1)]
        r == Reduced(results, reduce_op, Len(results))
        nodes == KeptNodes(this.nodes, results, 1)
        bitmap == SumMasks(SlotsFrom(this.bitmap, 0), results, 1) IN
    IF \A i \in 1 .. Len(results) : results[i].t = "Unchanged"
    THEN TUnchanged(r)
    ELSE IF nodes = <<>> THEN TRemoved(r)
    ELSE IF depth > 0 /\ Len(nodes) = 1 /\ nodes[1].t \in {"S", "L"}
    THEN TNode(nodes[1].t, nodes[1], r)
    ELSE TNode("C", CNode_new(bitmap, nodes), r)

MNode_transform_at(node, reduce_op, op, depth) ==
    CASE node.t = "C" -> cnode_transform(node, reduce_op, op, depth)
      [] node.t = "L" -> lnode_transform(node, reduce_op, op)
      [] node.t = "S" -> snode_transform(node, op)

MNode_transform(node, reduce_op, op) ==
    MNode_transform_at(node, reduce_op, op, 0)

----------------------------------------------------------------------------
(* The callbacks a client passes to transmute and joint_transmute.  The    *)
(* reduction a callback returns is the record of its call, <<name of the   *)
(* callback, key, value, right key, right value>> (a callback of one entry *)
(* has no right entry), so that the reduction an operation returns shows   *)
(* the calls made and the order they were combined in.  Keys keep their    *)
(* hash (K: HashLike<S>): a callback returns the key it was given.         *)

NoKey == 0
NoValue == "none"

MapTransmuted(k, v, r) == [t |-> "Transmuted", key |-> k, value |-> v, r |-> r]

\* a callback of one entry keeps the entries it does not pick; the ones it
\* picks it keeps ("keep"), removes ("remove") or gives the value out
TransmuteOuts == {"keep", "remove"} \cup Vals

TransmuteOps(name) ==
    {[name |-> name, pick |-> "all", out |-> o] : o \in TransmuteOuts}
      \cup {[name |-> name, pick |-> "key", key |-> k, out |-> o] :
                k \in Keys, o \in {"remove", "b"}}
      \cup {[name |-> name, pick |-> "notkey", key |-> k, out |-> "remove"] :
                k \in Keys}

transmute_op(f, k, v) ==
    LET r == <<<<f.name, k, v, NoKey, NoValue>>>> IN
    IF ~Picks(f, k) \/ f.out = "keep" THEN MapTransmuted(k, v, r)
    ELSE IF f.out = "remove" THEN MapRemoved(r)
    ELSE MapTransmuted(k, f.out, r)

----------------------------------------------------------------------------
(* transmute *)

snode_transmute(this, op) ==
    LET result == transmute_op(op, this.key, this.value) IN
    IF result.t = "Transmuted"
    THEN TNode("S", SNode_new(result.key, result.value), result.r)
    ELSE TRemoved(result.r)

\* transmute_result giving the chain it builds the cached size of its tail
transmute_result_SizeOfTail(result, next, reduce_op) ==
    LET r == reduce(reduce_op, result.r, next.r) IN
    CASE result.t = "Transmuted" ->
            (CASE next.t \in {"L", "S"} ->
                    TNode("L",
                          [LNode_new(result.key, result.value, next.node)
                              EXCEPT !.size = @ - 1],
                          r)
               [] next.t = "Removed" ->
                    TNode("S", SNode_new(result.key, result.value), r))
      [] result.t = "Removed" ->
            (CASE next.t \in {"L", "S"} -> TNode(next.t, next.node, r)
               [] next.t = "Removed" -> TRemoved(r))

transmute_result(result, next, reduce_op) ==
    LET r == reduce(reduce_op, result.r, next.r) IN
    CASE result.t = "Transmuted" ->
            (CASE next.t \in {"L", "S"} ->
                    TNode("L", LNode_new(result.key, result.value, next.node), r)
               [] next.t = "Removed" ->
                    TNode("S", SNode_new(result.key, result.value), r))
      [] result.t = "Removed" ->
            (CASE next.t \in {"L", "S"} -> TNode(next.t, next.node, r)
               [] next.t = "Removed" -> TRemoved(r))

RECURSIVE lnode_transmute(_, _, _)
lnode_transmute(this, reduce_op, op) ==
    LET next == IF this.next.t = "L"
                THEN lnode_transmute(this.next, reduce_op, op)
                ELSE snode_transmute(this.next, op) IN
    transmute_result(transmute_op(op, this.key, this.value), next, reduce_op)

\* The node a CNode's walk leaves: nothing if no child is left, the child
\* itself if it is the only one, an SNode or LNode, and the CNode is not the
\* root, else a CNode of the children left (spec.md 4.4).
cnode_rebuilt(bitmap, nodes, depth, r) ==
    IF nodes = <<>> THEN TRemoved(r)
    ELSE IF depth > 0 /\ Len(nodes) = 1 /\ nodes[1].t \in {"S", "L"}
    THEN TNode(nodes[1].t, nodes[1], r)
    ELSE TNode("C", CNode_new(bitmap, nodes), r)

RECURSIVE MNode_transmute(_, _, _, _)
cnode_transmute(this, reduce_op, op, depth) ==
    LET results == [i \in 1 .. Len(this.nodes) |->
                        MNode_transmute(this.nodes[i], reduce_op, op,
                                        depth + 1)] IN
    cnode_rebuilt(SumMasks(SlotsFrom(this.bitmap, 0), results, 1),
                  KeptNodes(this.nodes, results, 1), depth,
                  Reduced(results, reduce_op, Len(results)))

MNode_transmute(node, reduce_op, op, depth) ==
    CASE node.t = "C" -> cnode_transmute(node, reduce_op, op, depth)
      [] node.t = "L" -> lnode_transmute(node, reduce_op, op)
      [] node.t = "S" -> snode_transmute(node, op)

----------------------------------------------------------------------------
(* joint_transmute: the callbacks *)

\* both_op keeps the left entry, keeps the right entry or removes the pair.
\* A walker that swaps its operands passes |k, v, l, w| both_op(l, w, k, v)
\* on, which is both_op with swapped set.
BothOps == {[keep |-> o, swapped |-> FALSE] : o \in {"left", "right", "remove"}}

both_op_call(f, k, v, l, w) ==
    LET lk == IF f.swapped THEN l ELSE k
        lv == IF f.swapped THEN w ELSE v
        rk == IF f.swapped THEN k ELSE l
        rv == IF f.swapped THEN v ELSE w
        r == <<<<"both", lk, lv, rk, rv>>>> IN
    CASE f.keep = "left" -> MapTransmuted(lk, lv, r)
      [] f.keep = "right" -> MapTransmuted(rk, rv, r)
      [] f.keep = "remove" -> MapRemoved(r)

swap_both(f) == [f EXCEPT !.swapped = ~f.swapped]

\* |a, b| reduce_op(b, a)
swap_reduce(reduce_op) ==
    IF reduce_op = "concat" THEN "concat_swapped" ELSE "concat"

\* a call that does not return: the loop of joint_transmute_lnode that
\* gathers the right chain pushes the same entry again and again
NoReturn == [t |-> "NoReturn"]

Failed(result) == result.t \in {"NoReturn", "Panic"}

----------------------------------------------------------------------------
(* joint_transmute: SNode against SNode (spec.md 4.2, 4.7 case 6) *)

snode_joint_transmute_values(k, v, l, w, reduce_op, both_op, left_op, right_op) ==
    IF k = l
    THEN LET result == both_op_call(both_op, k, v, l, w) IN
         IF result.t = "Transmuted"
         THEN TNode("S", SNode_new(result.key, result.value), result.r)
         ELSE TRemoved(result.r)
    ELSE transmute_result(transmute_op(left_op, k, v),
                          snode_transmute(SNode_new(l, w), right_op),
                          reduce_op)

----------------------------------------------------------------------------
(* joint_transmute: LNode (src/src/node/lnode.rs) *)

\* rights.iter().position(|key_value| key == *key_value.0), 0 for None
Position(rights, key) ==
    IF \E i \in 1 .. Len(rights) : rights[i][1] = key
    THEN CHOOSE i \in 1 .. Len(rights) :
            /\ rights[i][1] = key
            /\ \A j \in 1 .. i - 1 : rights[j][1] # key
    ELSE 0

\* Vec::swap_remove: the last element takes the place of the removed one
swap_remove(rights, index) ==
    IF index = Len(rights) THEN SubSeq(rights, 1, Len(rights) - 1)
    ELSE [SubSeq(rights, 1, Len(rights) - 1) EXCEPT ![index] = rights[Len(rights)]]

\* Two transmuted sides of different hashes: a CNode of both at this depth,
\* the side that is left, or Removed.
lifted_pair(this, right, this_hash, right_hash, reduce_op, depth) ==
    LET this_flag == Flag_new_at_depth(this_hash, depth)
        right_flag == Flag_new_at_depth(right_hash, depth)
        r == reduce(reduce_op, this.r, right.r) IN
    IF this_flag = None \/ right_flag = None THEN Panic
    ELSE CASE this.t # "Removed" /\ right.t # "Removed" ->
                TNode("C", cnode_lift_to_cnode_and_insert(
                                this.node, this_flag.v, right.node, right_flag.v), r)
           [] this.t # "Removed" /\ right.t = "Removed" ->
                TNode(this.t, this.node, r)
           [] this.t = "Removed" /\ right.t # "Removed" ->
                TNode(right.t, right.node, r)
           [] OTHER -> TRemoved(r)

\* The loop of joint_transmute_lnode that gathers the entries of the right
\* chain into rights, from the state (r, rights) on: when r.next is an LNode
\* it pushes that LNode's entry and goes on from r = right.
RECURSIVE gather_rights(_, _, _)
gather_rights(r, right, rights) ==
    IF r.next.t = "L"
    THEN IF Len(rights) >= MaxRights THEN NoReturn
         ELSE gather_rights(right, right,
                            Append(rights, <<r.next.key, r.next.value>>))
    ELSE [t |-> "Rights",
          rights |-> Append(rights, <<r.next.key, r.next.value>>)]

\* joint_transmute_lnode_impl: the result and what is left of rights
RECURSIVE joint_transmute_lnode_impl(_, _, _, _, _, _)
joint_transmute_lnode_impl(this, rights, reduce_op, both_op, left_op, right_op) ==
    LET next ==
            IF this.next.t = "L"
            THEN joint_transmute_lnode_impl(this.next, rights, reduce_op,
                                            both_op, left_op, right_op)
            ELSE LET index == Position(rights, this.next.key) IN
                 IF index # 0
                 THEN [res |-> snode_joint_transmute_values(
                                    this.next.key, this.next.value,
                                    rights[index][1], rights[index][2],
                                    reduce_op, both_op, left_op, right_op),
                       rights |-> swap_remove(rights, index)]
                 ELSE [res |-> snode_transmute(this.next, left_op),
                       rights |-> rights]
        index == Position(next.rights, this.key)
        result ==
            IF index # 0
            THEN both_op_call(both_op, this.key, this.value,
                              next.rights[index][1], next.rights[index][2])
            ELSE transmute_op(left_op, this.key, this.value) IN
    [res |-> transmute_result(result, next.res, reduce_op),
     rights |-> IF index # 0 THEN swap_remove(next.rights, index)
                ELSE next.rights]

\* for (rk, rv) in rights { next = match right_op(rk, rv) ... }
RECURSIVE leftover_rights(_, _, _, _, _)
leftover_rights(rights, i, next, reduce_op, right_op) ==
    IF i > Len(rights) THEN next
    ELSE LET result == transmute_op(right_op, rights[i][1], rights[i][2])
             r == reduce(reduce_op, result.r, next.r) IN
         leftover_rights(
            rights, i + 1,
            IF result.t = "Transmuted"
            THEN (CASE next.t \in {"L", "S"} ->
                        TNode("L", LNode_new(result.key, result.value,
                                             next.node), r)
                    [] next.t = "Removed" ->
                        TNode("S", SNode_new(result.key, result.value), r))
            ELSE (CASE next.t \in {"L", "S"} -> TNode(next.t, next.node, r)
                    [] next.t = "Removed" -> TRemoved(r)),
            reduce_op, right_op)

joint_transmute_lnode(this, right, reduce_op, both_op, left_op, right_op, depth) ==
    LET this_hash == hasher(this.key)
        right_hash == hasher(right.key) IN
    IF this_hash = right_hash
    THEN LET gathered == gather_rights(right, right,
                                       <<<<right.key, right.value>>>>) IN
         IF gathered.t = "NoReturn" THEN NoReturn
         ELSE LET next == joint_transmute_lnode_impl(
                                this, gathered.rights, reduce_op, both_op,
                                left_op, right_op) IN
              leftover_rights(next.rights, 1, next.res, reduce_op, right_op)
    ELSE lifted_pair(lnode_transmute(this, reduce_op, left_op),
                     lnode_transmute(right, reduce_op, right_op),
                     this_hash, right_hash, reduce_op, depth)

RECURSIVE joint_transmute_snode_impl(_, _, _, _, _, _)
joint_transmute_snode_impl(this, right, reduce_op, both_op, left_op, right_op) ==
    IF this.key = right.key
    THEN LET next == IF this.next.t = "L"
                     THEN lnode_transmute(this.next, reduce_op, left_op)
                     ELSE snode_transmute(this.next, left_op) IN
         transmute_result(both_op_call(both_op, this.key, this.value,
                                       right.key, right.value),
                          next, reduce_op)
    ELSE LET next == IF this.next.t = "L"
                     THEN joint_transmute_snode_impl(
                                this.next, right, reduce_op, both_op, left_op,
                                right_op)
                     ELSE snode_joint_transmute_values(
                                this.next.key, this.next.value, right.key,
                                right.value, reduce_op, both_op, left_op,
                                right_op) IN
         transmute_result(transmute_op(left_op, this.key, this.value), next,
                          reduce_op)

joint_transmute_snode(this, right, reduce_op, both_op, left_op, right_op, depth) ==
    LET this_hash == hasher(this.key)
        right_hash == hasher(right.key) IN
    IF this_hash = right_hash
    THEN joint_transmute_snode_impl(this, right, reduce_op, both_op, left_op,
                                    right_op)
    ELSE lifted_pair(lnode_transmute(this, reduce_op, left_op),
                     snode_transmute(right, right_op),
                     this_hash, right_hash, reduce_op, depth)

----------------------------------------------------------------------------
(* joint_transmute: the walk of two nodes (spec.md 4.7), with the LNode on *)
(* the left from src/src/node/lnode.rs                                     *)

Absent == [t |-> "Absent"]

\* the child of a CNode in slot i (0 .. W-1)
ChildAt(this, i) ==
    IF bit_present(this.bitmap, 2 ^ i)
    THEN Some(this.nodes[array_index(this.bitmap, 2 ^ i) + 1])
    ELSE None

\* what the walk of the slots 0 .. W-1 left, results[i + 1] for slot i
RECURSIVE JoinedNodes(_, _)
JoinedNodes(results, i) ==
    IF i > Len(results) THEN <<>>
    ELSE (IF results[i].t \in {"C", "L", "S"} THEN <<results[i].node>>
          ELSE <<>>) \o JoinedNodes(results, i + 1)

RECURSIVE JoinedBitmap(_, _)
JoinedBitmap(results, i) ==
    IF i > Len(results) THEN 0
    ELSE (IF results[i].t \in {"C", "L", "S"} THEN 2 ^ (i - 1) ELSE 0)
            + JoinedBitmap(results, i + 1)

RECURSIVE JoinedReduced(_, _, _)
JoinedReduced(results, reduce_op, i) ==
    IF i = 0 THEN ReduceDefault
    ELSE IF results[i].t = "Absent"
    THEN JoinedReduced(results, reduce_op, i - 1)
    ELSE reduce(reduce_op, JoinedReduced(results, reduce_op, i - 1),
                results[i].r)

cnode_joined(results, reduce_op, depth) ==
    IF \E i \in 1 .. Len(results) : Failed(results[i])
    THEN results[CHOOSE i \in 1 .. Len(results) :
                    /\ Failed(results[i])
                    /\ \A j \in 1 .. i - 1 : ~Failed(results[j])]
    ELSE cnode_rebuilt(JoinedBitmap(results, 1), JoinedNodes(results, 1),
                       depth, JoinedReduced(results, reduce_op, Len(results)))

RECURSIVE MNode_joint_transmute(_, _, _, _, _, _, _)

\* C against C: slot by slot
cnode_joint_transmute_cnode(this, right, reduce_op, both_op, left_op, right_op, depth) ==
    cnode_joined(
        [i \in 1 .. W |->
            LET l == ChildAt(this, i - 1)
                r == ChildAt(right, i - 1) IN
            CASE l # None /\ r # None ->
                    MNode_joint_transmute(l.v, r.v, reduce_op, both_op,
                                          left_op, right_op, depth + 1)
              [] l # None /\ r = None ->
                    MNode_transmute(l.v, reduce_op, left_op, depth + 1)
              [] l = None /\ r # None ->
                    MNode_transmute(r.v, reduce_op, right_op, depth + 1)
              [] OTHER -> Absent],
        reduce_op, depth)

\* C against a leaf (an LNode or an SNode) on the right: the leaf meets the
\* child in the slot of its flag at this depth
cnode_joint_transmute_leaf(this, right, reduce_op, both_op, left_op, right_op, depth) ==
    LET flag == Flag_new_at_depth(hasher(right.key), depth).v IN
    cnode_joined(
        [i \in 1 .. W |->
            LET l == ChildAt(this, i - 1) IN
            CASE l # None /\ Flag_index(flag) = i - 1 ->
                    MNode_joint_transmute(l.v, right, reduce_op, both_op,
                                          left_op, right_op, depth + 1)
              [] l # None /\ Flag_index(flag) # i - 1 ->
                    MNode_transmute(l.v, reduce_op, left_op, depth + 1)
              [] l = None /\ Flag_index(flag) = i - 1 ->
                    MNode_transmute(right, reduce_op, right_op, depth + 1)
              [] OTHER -> Absent],
        reduce_op, depth)

cnode_joint_transmute_lnode(this, right, reduce_op, both_op, left_op, right_op, depth) ==
    cnode_joint_transmute_leaf(this, right, reduce_op, both_op, left_op,
                               right_op, depth)

cnode_joint_transmute_snode(this, right, reduce_op, both_op, left_op, right_op, depth) ==
    cnode_joint_transmute_leaf(this, right, reduce_op, both_op, left_op,
                               right_op, depth)

cnode_joint_transmute(this, right, reduce_op, both_op, left_op, right_op, depth) ==
    CASE right.t = "C" ->
            cnode_joint_transmute_cnode(this, right, reduce_op, both_op,
                                        left_op, right_op, depth)
      [] right.t = "L" ->
            cnode_joint_transmute_lnode(this, right, reduce_op, both_op,
                                        left_op, right_op, depth)
      [] right.t = "S" ->
            cnode_joint_transmute_snode(this, right, reduce_op, both_op,
                                        left_op, right_op, depth)

lnode_joint_transmute(this, right, reduce_op, both_op, left_op, right_op, depth) ==
    CASE right.t = "C" ->
            cnode_joint_transmute_lnode(right, this, swap_reduce(reduce_op),
                                        swap_both(both_op), right_op, left_op,
                                        depth)
      [] right.t = "L" ->
            joint_transmute_lnode(this, right, reduce_op, both_op, left_op,
                                  right_op, depth)
      [] right.t = "S" ->
            joint_transmute_snode(this, right, reduce_op, both_op, left_op,
                                  right_op, depth)

snode_joint_transmute(this, right, reduce_op, both_op, left_op, right_op, depth) ==
    CASE right.t = "C" ->
            cnode_joint_transmute_snode(right, this, swap_reduce(reduce_op),
                                        swap_both(both_op), right_op, left_op,
                                        depth)
      [] right.t = "L" ->
            joint_transmute_snode(right, this, swap_reduce(reduce_op),
                                  swap_both(both_op), right_op, left_op, depth)
      [] right.t = "S" ->
            IF hasher(this.key) = hasher(right.key)
            THEN snode_joint_transmute_values(
                    this.key, this.value, right.key, right.value, reduce_op,
                    both_op, left_op, right_op)
            ELSE lifted_pair(snode_transmute(this, left_op),
                             snode_transmute(right, right_op),
                             hasher(this.key), hasher(right.key), reduce_op,
                             depth)

MNode_joint_transmute(node, right, reduce_op, both_op, left_op, right_op, depth) ==
    CASE node.t = "C" ->
            cnode_joint_transmute(node, right, reduce_op, both_op, left_op,
                                  right_op, depth)
      [] node.t = "L" ->
            lnode_joint_transmute(node, right, reduce_op, both_op, left_op,
                                  right_op, depth)
      [] node.t = "S" ->
            snode_joint_transmute(node, right, reduce_op, both_op, left_op,
                                  right_op, depth)

HashTrie_clone(self) == HashTrie_singleton(self.root)

HashTrie_transform(self, reduce_op, op) ==
    LET r == MNode_transform(self.root, reduce_op, op) IN
    CASE r.t = "Unchanged" -> [t |-> "Ok", trie |-> HashTrie_clone(self),
                               reduced |-> r.r]
      [] r.t = "Removed" -> [t |-> "Ok", trie |-> HashTrie_default,
                             reduced |-> r.r]
      [] OTHER -> [t |-> "Ok", trie |-> HashTrie_singleton(r.node),
                   reduced |-> r.r]

HashTrie_transmute(self, reduce_op, op) ==
    LET r == MNode_transmute(self.root, reduce_op, op, 0) IN
    IF r.t = "Removed"
    THEN [t |-> "Ok", trie |-> HashTrie_default, reduced |-> r.r]
    ELSE [t |-> "Ok", trie |-> HashTrie_singleton(r.node), reduced |-> r.r]

HashTrie_joint_transmute(self, right, reduce_op, both_op, left_op, right_op) ==
    LET r == MNode_joint_transmute(self.root, right.root, reduce_op, both_op,
                                   left_op, right_op, 0) IN
    CASE Failed(r) -> r
      [] r.t = "Removed" ->
            [t |-> "Ok", trie |-> HashTrie_default, reduced |-> r.r]
      [] OTHER ->
            [t |-> "Ok", trie |-> HashTrie_singleton(r.node), reduced |-> r.r]

----------------------------------------------------------------------------
(* The client.  It holds one trie, calls one operation of HashTrie on it   *)
(* (the call and what it returned are kept in call; the trie called on is  *)
(* borrowed, not changed), and then either keeps the trie the operation    *)
(* returned (hash_set = mutated) or drops the result.                      *)

Idle == [name |-> "idle", res |-> [t |-> "None"]]

Init ==
    /\ trie = HashTrie_new
    /\ call = Idle
    /\ hist = [k \in Keys |-> NoValue]
    /\ other = HashTrie_new

Find(key) ==
    /\ call = Idle
    /\ call' = [name |-> "find", key |-> key, res |-> HashTrie_find(trie, key)]
    /\ UNCHANGED trie

Insert(key, value, replace) ==
    /\ call = Idle
    /\ call' = [name |-> "insert", key |-> key, value |-> value,
                replace |-> replace,
                res |-> HashTrie_insert(trie, key, value, replace)]
    /\ UNCHANGED trie

Remove(key) ==
    /\ call = Idle
    /\ call' = [name |-> "remove", key |-> key,
                res |-> HashTrie_remove(trie, key)]
    /\ UNCHANGED trie

Visit ==
    /\ call = Idle
    /\ call' = [name |-> "visit", res |-> [t |-> "Visited",
                                            calls |-> HashTrie_visit(trie)]]
    /\ UNCHANGED trie

Transform(f) ==
    /\ call = Idle
    /\ call' = [name |-> "transform", reduce_op |-> "concat", op |-> f,
                res |-> HashTrie_transform(trie, "concat", f)]
    /\ UNCHANGED trie

Transmute(f) ==
    /\ call = Idle
    /\ call' = [name |-> "transmute", reduce_op |-> "concat", op |-> f,
                res |-> HashTrie_transmute(trie, "concat", f)]
    /\ UNCHANGED trie

\* the client keeps the trie an operation returned
Adopt ==
    /\ call.name \in {"insert", "remove", "transform", "transmute",
                     "joint_transmute"}
    /\ call.res.t = "Ok"
    /\ trie' = call.res.trie
    /\ call' = Idle

\* the client drops what an operation returned; a panic ends the program,
\* and after a call that does not return nothing follows
Drop ==
    /\ call # Idle
    /\ ~Failed(call.res)
    /\ call' = Idle
    /\ UNCHANGED trie

Next ==
    \/ \E k \in Keys : Find(k) /\ UNCHANGED <<hist, other>>
    \/ \E k \in Keys, v \in Vals, replace \in BOOLEAN :
            Insert(k, v, replace) /\ UNCHANGED <<hist, other>>
    \/ \E k \in Keys : Remove(k) /\ UNCHANGED <<hist, other>>
    \/ Visit /\ UNCHANGED <<hist, other>>
    \/ \E f \in TransformOps : Transform(f) /\ UNCHANGED <<hist, other>>
    \/ \E f \in TransmuteOps("op") : Transmute(f) /\ UNCHANGED <<hist, other>>
    \/ Adopt /\ UNCHANGED <<hist, other>>
    \/ Drop /\ UNCHANGED <<hist, other>>

Spec == Init /\ [][Next]_vars

\* Only inserts, from the empty trie: hist keeps the value last inserted for
\* each key of the trie the client holds.
NextIns ==
    \/ \E k \in Keys, v \in Vals, replace \in BOOLEAN :
            Insert(k, v, replace) /\ UNCHANGED <<hist, other>>
    \/ Adopt /\ hist' = [hist EXCEPT ![call.key] = call.value]
             /\ UNCHANGED other
    \/ Drop /\ UNCHANGED <<hist, other>>

SpecIns == Init /\ [][NextIns]_vars

\* Two tries and joint_transmute.  The client builds the left trie with the
\* value "a" and the right trie with the value "b" (trie = trie.insert(k, v,
\* false).unwrap().0), joins them, and may keep the joined trie as its left
\* trie.
BuildLeft(key) ==
    /\ call = Idle
    /\ HashTrie_insert(trie, key, "a", FALSE).t = "Ok"
    /\ trie' = HashTrie_insert(trie, key, "a", FALSE).trie
    /\ UNCHANGED <<call, other>>

BuildRight(key) ==
    /\ call = Idle
    /\ HashTrie_insert(other, key, "b", FALSE).t = "Ok"
    /\ other' = HashTrie_insert(other, key, "b", FALSE).trie
    /\ UNCHANGED <<call, trie>>

JointOps == {[name |-> n, pick |-> "all", out |-> o] :
                n \in {"left", "right"}, o \in {"keep", "remove"}}

JointTransmute(both_op, left_op, right_op) ==
    /\ call = Idle
    /\ call' = [name |-> "joint_transmute", reduce_op |-> "concat",
                both_op |-> both_op, left_op |-> left_op,
                right_op |-> right_op,
                res |-> HashTrie_joint_transmute(trie, other, "concat",
                                                 both_op, left_op, right_op)]
    /\ UNCHANGED <<trie, other>>

NextJoint ==
    \/ \E k \in Keys : BuildLeft(k) /\ UNCHANGED hist
    \/ \E k \in Keys : BuildRight(k) /\ UNCHANGED hist
    \/ \E b \in BothOps, l \in {f \in JointOps : f.name = "left"},
          r \in {f \in JointOps : f.name = "right"} :
            JointTransmute(b, l, r) /\ UNCHANGED hist
    \/ Adopt /\ UNCHANGED <<hist, other>>
    \/ Drop /\ UNCHANGED <<hist, other>>

SpecJoint == Init /\ [][NextJoint]_vars

\* The five operations that return a trie, on two tries.  The callbacks of
\* transform and transmute here are those that remove: the entry of one key,
\* every entry but that of one key, or every entry.
RemovingTransforms ==
    {f \in TransformOps :
        /\ f.out = [t |-> "Removed"]
        /\ f.pick \in {"key", "all"}}

RemovingTransmutes ==
    {f \in TransmuteOps("op") :
        /\ f.out = "remove"
        /\ f.pick \in {"notkey", "all"}}

NextOps ==
    \/ \E k \in Keys : BuildLeft(k) /\ UNCHANGED hist
    \/ \E k \in Keys : BuildRight(k) /\ UNCHANGED hist
    \/ \E k \in Keys : Remove(k) /\ UNCHANGED <<hist, other>>
    \/ \E f \in RemovingTransforms : Transform(f) /\ UNCHANGED <<hist, other>>
    \/ \E f \in RemovingTransmutes : Transmute(f) /\ UNCHANGED <<hist, other>>
    \/ \E b \in BothOps, l \in {f \in JointOps : f.name = "left"},
          r \in {f \in JointOps : f.name = "right"} :
            JointTransmute(b, l, r) /\ UNCHANGED hist
    \/ Adopt /\ UNCHANGED <<hist, other>>
    \/ Drop /\ UNCHANGED <<hist, other>>

SpecOps == Init /\ [][NextOps]_vars

----------------------------------------------------------------------------
(* What a trie stores, read off its structure (not through find) *)

RECURSIVE Entries(_)
Entries(node) ==
    CASE node.t = "S" -> {<<node.key, node.value>>}
      [] node.t = "L" -> {<<node.key, node.value>>} \cup Entries(node.next)
      [] node.t = "C" ->
            UNION {Entries(node.nodes[i]) : i \in 1 .. Len(node.nodes)}

KeysOf(self) == {e[1] : e \in Entries(self.root)}

\* the LNode chains of a trie, each by its head
RECURSIVE Chains(_)
Chains(node) ==
    CASE node.t = "S" -> {}
      [] node.t = "L" -> {node}
      [] node.t = "C" ->
            UNION {Chains(node.nodes[i]) : i \in 1 .. Len(node.nodes)}

\* the number of entries of a chain, counted link by link
RECURSIVE ChainLen(_)
ChainLen(node) == IF node.t = "S" THEN 1 ELSE 1 + ChainLen(node.next)

\* the trie holds a collision chain of n entries
HasChain(self, n) == \E c \in Chains(self.root) : ChainLen(c) = n

\* the chain of n entries in which the trie stores key
InChain(self, key, n) ==
    \E c \in Chains(self.root) :
        ChainLen(c) = n /\ key \in {e[1] : e \in Entries(c)}

FoundOk(k, v) == [t |-> "Ok", key |-> k, value |-> v]

----------------------------------------------------------------------------
(* Properties *)

\* C1: after any sequence of inserts into the empty trie, find(k) on the trie
\* the client holds returns the key with the value last inserted for it, for
\* every inserted k, also when several keys share one full hash and sit in
\* one collision chain.
C1_InsertThenFind ==
    \A k \in Keys :
        hist[k] # NoValue => HashTrie_find(trie, k) = FoundOk(k, hist[k])

\* a chain of three colliding keys beside two keys of other hashes, one of
\* the chain's keys inserted again with another value
C1_Witness ==
    /\ call = Idle
    /\ InChain(trie, 1, 3)
    /\ \A k \in {1, 2, 3, 4, 5} : hist[k] # NoValue
    /\ hist[1] # hist[2]

\* C3: size conservation.  An insert of a key not yet present returns a trie
\* one larger, a successful remove a trie one smaller, an insert with replace
\* of a key already present a trie of the same size; the size a chain caches
\* is 1 plus the size of its tail.
C3_SizeConservation ==
    /\ (call.name = "insert" /\ call.res.t = "Ok")
        => /\ HashTrie_size(call.res.trie)
                = HashTrie_size(trie)
                    + (IF call.key \in KeysOf(trie) THEN 0 ELSE 1)
           /\ \A c \in Chains(call.res.trie.root) : c.size = ChainLen(c)
    /\ (call.name = "remove" /\ call.res.t = "Ok")
        => /\ HashTrie_size(call.res.trie) = HashTrie_size(trie) - 1
           /\ \A c \in Chains(call.res.trie.root) : c.size = ChainLen(c)

\* a third key joins a chain of two
C3_Witness ==
    /\ call.name = "insert"
    /\ call.res.t = "Ok"
    /\ call.key \notin KeysOf(trie)
    /\ InChain(trie, 1, 2)
    /\ InChain(call.res.trie, call.key, 3)

\* C4: insert with replace = false of a key the trie holds returns Err with
\* the key and the value the trie stores (not the new value) and no new trie;
\* with replace = true it returns Ok.
C4_InsertExisting ==
    (call.name = "insert" /\ call.key \in KeysOf(trie))
        => IF call.replace
           THEN call.res.t = "Ok"
           ELSE /\ call.res.t = "Err"
                /\ DOMAIN call.res = {"t", "key", "value"}
                /\ <<call.res.key, call.res.value>> \in Entries(trie.root)
                /\ call.res.key = call.key

\* the key sits inside a chain of three, stored with the other value
C4_Witness ==
    /\ call.name = "insert"
    /\ ~call.replace
    /\ call.key = 1
    /\ InChain(trie, 1, 3)
    /\ InChain(trie, 3, 3)
    /\ <<1, call.value>> \notin Entries(trie.root)
    /\ call.res.t = "Err"

\* C5: a successful insert returns the previous entry, Some(old key, old
\* value), exactly when replace = true and the key was present; it returns
\* None when the key was absent, also when the key joins a chain or splits a
\* chain into a branch.
C5_PreviousEntry ==
    (call.name = "insert" /\ call.res.t = "Ok")
        => IF call.replace /\ call.key \in KeysOf(trie)
           THEN /\ call.res.prev.t = "Some"
                /\ call.res.prev.v[1] = call.key
                /\ call.res.prev.v \in Entries(trie.root)
           ELSE call.res.prev = None

\* a key of another hash splits a chain of three into a branch
C5_Witness ==
    /\ call.name = "insert"
    /\ call.res.t = "Ok"
    /\ call.key = 4
    /\ KeysOf(trie) = {1, 2, 3}
    /\ InChain(call.res.trie, 1, 3)
    /\ call.res.prev = None

\* C6: find and remove of a key the trie does not hold (the empty trie, or a
\* chain whose entries share the key's hash but not the key) return the
\* NotFound error, and remove returns no new trie.
C6_NotFound ==
    (call.name \in {"find", "remove"} /\ call.key \notin KeysOf(trie))
        => call.res = NotFoundErr

\* remove of key 2 from the chain of keys 1 and 3, which hash as 2 does
C6_Witness ==
    /\ call.name = "remove"
    /\ call.key = 2
    /\ hasher(2) = hasher(1)
    /\ InChain(trie, 1, 2)
    /\ InChain(trie, 3, 2)
    /\ call.res = NotFoundErr

\* C7: a successful remove(key) returns the key and the value the trie
\* stored for it and a trie where find(key) is NotFound and find of every
\* other key returns what it returned before.
C7_RemoveResult ==
    (call.name = "remove" /\ call.res.t = "Ok")
        => /\ call.res.key = call.key
           /\ <<call.res.key, call.res.value>> \in Entries(trie.root)
           /\ HashTrie_find(call.res.trie, call.key) = NotFoundErr
           /\ \A k \in Keys \ {call.key} :
                    HashTrie_find(call.res.trie, k) = HashTrie_find(trie, k)

\* keys 1, 2, 3 of one hash, 2 removed: 1 and 3 are found, 2 is not
C7_Witness ==
    /\ call.name = "remove"
    /\ call.key = 2
    /\ KeysOf(trie) = {1, 2, 3}
    /\ hasher(1) = hasher(2) /\ hasher(2) = hasher(3)
    /\ call.res.t = "Ok"
    /\ HashTrie_find(call.res.trie, 1).t = "Ok"
    /\ HashTrie_find(call.res.trie, 3).t = "Ok"
    /\ HashTrie_find(call.res.trie, 2) = NotFoundErr

\* C8: remove cancels insert.  For the trie T the client holds and a key k
\* not in T, removing k from the trie insert(k, v) returns on T gives a trie
\* equal to T, also when k collides in full hash with keys of T.
C8_RemoveCancelsInsert ==
    \A k \in Keys \ KeysOf(trie), v \in Vals :
        LET inserted == HashTrie_insert(trie, k, v, FALSE) IN
        inserted.t = "Ok"
            => LET removed == HashTrie_remove(inserted.trie, k) IN
               removed.t = "Ok" /\ removed.trie = trie

\* remove acted on the trie that insert of the key returns on the trie it
\* gives back; the key was the third of a collision chain
C8_Witness ==
    /\ call.name = "remove"
    /\ call.res.t = "Ok"
    /\ InChain(trie, call.key, 3)
    /\ \E v \in Vals :
            /\ HashTrie_insert(call.res.trie, call.key, v, FALSE).t = "Ok"
            /\ HashTrie_insert(call.res.trie, call.key, v, FALSE).trie = trie

\* C9: insert with replace is idempotent.  For the trie T the client holds
\* and any (k, v), insert(k, v, replace = true) on T and then on its result
\* gives a trie equal to the first result, also when k lies in a chain.
C9_IdempotentReplace ==
    \A k \in Keys, v \in Vals :
        LET once == HashTrie_insert(trie, k, v, TRUE) IN
        once.t = "Ok"
            => LET twice == HashTrie_insert(once.trie, k, v, TRUE) IN
               twice.t = "Ok" /\ twice.trie = once.trie

\* the second insert: the trie called on is what the same insert returns on
\* some trie where the key lay deeper in a chain of three
C9_Witness ==
    /\ call.name = "insert"
    /\ call.replace
    /\ call.res.t = "Ok"
    /\ InChain(trie, call.key, 3)
    /\ FoundOk(call.key, call.value) = HashTrie_find(trie, call.key)
    /\ \E c \in Chains(trie.root) : c.key = call.key
    /\ call.res.trie = trie

\* C10: transform-unchanged.  If op returns Unchanged for every entry,
\* transform returns a trie equal to the original and it is the original's
\* root that is shared (the root answers Unchanged: no node is rebuilt).
C10_TransformUnchanged ==
    (/\ call.name = "transform"
     /\ \A e \in Entries(trie.root) :
            transform_op(call.op, e[1], e[2]).t = "Unchanged")
        => /\ call.res.trie = trie
           /\ MNode_transform(trie.root, call.reduce_op, call.op).t
                = "Unchanged"

\* every entry of a trie of five keys, three of them in a chain, Unchanged
C10_Witness ==
    /\ call.name = "transform"
    /\ call.op = [pick |-> "all", out |-> [t |-> "Unchanged"]]
    /\ KeysOf(trie) = {1, 2, 3, 4, 5}
    /\ HasChain(trie, 3)
    /\ call.res.trie = trie

\* what transform leaves of an entry: nothing if op answers Removed, the
\* entry with the new value if Transformed, the entry itself if Unchanged
Transformed(f, entries) ==
    {<<e[1], IF transform_op(f, e[1], e[2]).t = "Transformed"
             THEN transform_op(f, e[1], e[2]).value ELSE e[2]>> :
        e \in {x \in entries : transform_op(f, x[1], x[2]).t # "Removed"}}

\* C11: transform returns a trie that holds exactly the entries op did not
\* answer Removed for, with the value of Transformed or else the old value;
\* its size() is their number; when op answers Removed for every entry the
\* result is the empty trie, of size 0.
C11_TransformContents ==
    (call.name = "transform")
        => /\ call.res.t = "Ok"
           /\ Entries(call.res.trie.root)
                = Transformed(call.op, Entries(trie.root))
           /\ HashTrie_size(call.res.trie)
                = Cardinality(Transformed(call.op, Entries(trie.root)))
           /\ Transformed(call.op, Entries(trie.root)) = {}
                => (call.res.trie = HashTrie_new
                    /\ HashTrie_size(call.res.trie) = 0)

\* the head of a chain of three gets a new value, one other key is left
\* Unchanged and the three remaining keys are removed
C11_Witness ==
    /\ call.name = "transform"
    /\ call.op.pick = "keyval"
    /\ KeysOf(trie) = {1, 2, 3, 4, 5}
    /\ \E c \in Chains(trie.root) :
            /\ ChainLen(c) = 3
            /\ c.key = call.op.key
            /\ c.value = "a"
    /\ KeysOf(call.res.trie) = {call.op.key, call.op.keep}
    /\ <<call.op.key, "b">> \in Entries(call.res.trie.root)

\* the elements of a sequence, and whether none occurs twice
Range(s) == {s[i] : i \in 1 .. Len(s)}
NoRepeat(s) == Cardinality(Range(s)) = Len(s)

\* C12: the reduction transform returns combines, under reduce, the reduction
\* op returned for each entry, with op applied to every entry of the trie
\* exactly once.  A reduction is the sequence of the keys op was applied to
\* and reduce joins two of them, so up to the order (which an associative,
\* commutative reduce does not see) it is the keys of the trie, each once,
\* and nothing of the default.
C12_TransformReduction ==
    (call.name = "transform")
        => /\ Range(call.res.reduced) = KeysOf(trie)
           /\ NoRepeat(call.res.reduced)

\* five entries, three of them in a chain of which all but one are removed
C12_Witness ==
    /\ call.name = "transform"
    /\ call.op.pick = "notkey"
    /\ InChain(trie, call.op.key, 3)
    /\ KeysOf(trie) = {1, 2, 3, 4, 5}
    /\ KeysOf(call.res.trie) = {call.op.key}
    /\ Len(call.res.reduced) = 5

\* C13: traversal totality.  On every trie reachable from the empty trie,
\* visit(op) calls op exactly size() times: once for each stored (key, value)
\* and never twice for the same entry.
C13_VisitTotal ==
    (call.name = "visit")
        => /\ Len(call.res.calls) = HashTrie_size(trie)
           /\ Range(call.res.calls) = Entries(trie.root)
           /\ NoRepeat(call.res.calls)

\* a chain of three beside two keys of other hashes
C13_Witness ==
    /\ call.name = "visit"
    /\ HasChain(trie, 3)
    /\ KeysOf(trie) = {1, 2, 3, 4, 5}
    /\ Len(call.res.calls) = 5

\* C14: every operation is total.  joint_transmute returns a result for
\* every pair of tries, also when both sides hold collision chains of the
\* same full hash, of 2, 3 or more entries.
C14_JointTransmuteTotal ==
    (call.name = "joint_transmute") => call.res.t = "Ok"

\* the value a trie stores for a key it holds
ValueOf(self, key) == (CHOOSE e \in Entries(self.root) : e[1] = key)[2]

\* The callback calls joint_transmute(A, B, ..) owes: both for an entry of A
\* and the entry of B of the same key, left for every other entry of A,
\* right for every other entry of B.
JointCalls(A, B) ==
    {<<"both", e[1], e[2], e[1], ValueOf(B, e[1])>> :
        e \in {x \in Entries(A.root) : x[1] \in KeysOf(B)}}
      \cup {<<"left", e[1], e[2], NoKey, NoValue>> :
                e \in {x \in Entries(A.root) : x[1] \notin KeysOf(B)}}
      \cup {<<"right", e[1], e[2], NoKey, NoValue>> :
                e \in {x \in Entries(B.root) : x[1] \notin KeysOf(A)}}

\* what the client's callback answers to a call
Answer(both_op, left_op, right_op, c) ==
    CASE c[1] = "both" -> both_op_call(both_op, c[2], c[3], c[4], c[5])
      [] c[1] = "left" -> transmute_op(left_op, c[2], c[3])
      [] c[1] = "right" -> transmute_op(right_op, c[2], c[3])

\* the entries the callbacks returned as Transmuted
JointKept(both_op, left_op, right_op, calls) ==
    {<<Answer(both_op, left_op, right_op, c).key,
       Answer(both_op, left_op, right_op, c).value>> :
        c \in {x \in calls :
                    Answer(both_op, left_op, right_op, x).t = "Transmuted"}}

\* a joint_transmute that returned made exactly the calls it owes, each
\* once, and returned exactly the entries its callbacks kept
JointCallbacksDone ==
    /\ Range(call.res.reduced) = JointCalls(trie, other)
    /\ NoRepeat(call.res.reduced)
    /\ Entries(call.res.trie.root)
            = JointKept(call.both_op, call.left_op, call.right_op,
                        JointCalls(trie, other))
    /\ HashTrie_size(call.res.trie)
            = Cardinality(Entries(call.res.trie.root))

\* C15: in joint_transmute(A, B, reduce, both, left, right) every entry of A
\* and of B is passed to exactly one callback exactly once: an entry of A
\* whose key B holds goes with B's entry to both, called as both(key of A,
\* value of A, key of B, value of B) also where the walk swaps its operands;
\* every other entry of A goes to left, every other entry of B to right; the
\* result holds exactly the entries the callbacks returned as Transmuted.
C15_JointCallbacks ==
    (call.name = "joint_transmute")
        => (call.res.t = "Ok" /\ JointCallbacksDone)

\* joint_transmute(B, A, reduce, both', right, left) for the call in flight,
\* joint_transmute(A, B, reduce, both, left, right)
Mirrored ==
    HashTrie_joint_transmute(other, trie, call.reduce_op,
                             swap_both(call.both_op),
                             call.right_op, call.left_op)

\* C16: joint symmetry.  The trie joint_transmute(A, B, reduce, both, left,
\* right) returns equals the trie joint_transmute(B, A, reduce, both', right,
\* left) returns, both'(l, w, k, v) = both(k, v, l, w); A and B may hold
\* collision chains of one hash and partly different keys.  Equality is taken
\* at its weakest, the same entries, so that the order of a chain does not
\* decide it.
C16_JointSymmetry ==
    (call.name = "joint_transmute")
        => /\ call.res.t = "Ok"
           /\ Mirrored.t = "Ok"
           /\ Entries(Mirrored.trie.root) = Entries(call.res.trie.root)

\* the tries of a state: the two the client holds and the one the call in
\* flight returned
Produced ==
    {trie, other}
      \cup (IF /\ call.name \in {"insert", "remove", "transform", "transmute",
                                  "joint_transmute"}
                /\ call.res.t = "Ok"
             THEN {call.res.trie} ELSE {})

ChainKeys(c) == {e[1] : e \in Entries(c)}

RECURSIVE ChainEnd(_)
ChainEnd(c) == IF c.t = "L" THEN ChainEnd(c.next) ELSE c

\* every link of the chain caches the number of entries from it on
RECURSIVE Canonical(_)
Canonical(c) ==
    /\ ChainLen(c) >= 2
    /\ c.size = ChainLen(c)
    /\ ChainEnd(c).t = "S"
    /\ c.next.t = "L" => Canonical(c.next)

\* the keys of the hash of key that a trie holds
SameHash(self, key) == {k \in KeysOf(self) : hasher(k) = hasher(key)}

\* C17: canonical collision chains.  In every trie that a sequence of insert,
\* remove, transform, transmute and joint_transmute produces, every LNode
\* chain holds at least 2 entries, ends in an SNode and caches its number of
\* entries; where an operation leaves one entry of a chain's hash, the entry
\* is an SNode, in no chain, and where it leaves none, nothing of the chain is
\* left.
C17_CanonicalChains ==
    /\ \A T \in Produced : \A c \in Chains(T.root) : Canonical(c)
    /\ (/\ call.name \in {"remove", "transform", "transmute",
                           "joint_transmute"}
        /\ call.res.t = "Ok")
        => \A c \in Chains(trie.root) :
              LET left == SameHash(call.res.trie, c.key) IN
              /\ Cardinality(left) = 1
                    => \A d \in Chains(call.res.trie.root) :
                            ChainKeys(d) \cap left = {}
              /\ left = {}
                    => \A d \in Chains(call.res.trie.root) :
                            hasher(d.key) # hasher(c.key)

\* joint_transmute of a trie with a chain of three and a trie with a chain
\* of two leaves one entry of the chain's hash, an SNode beside an entry of
\* another hash, and no chain
C17_Witness ==
    /\ call.name = "joint_transmute"
    /\ call.res.t = "Ok"
    /\ HasChain(trie, 3)
    /\ HasChain(other, 2)
    /\ \E c \in Chains(trie.root) :
            /\ Cardinality(SameHash(call.res.trie, c.key)) = 1
            /\ Chains(call.res.trie.root) = {}
    /\ HashTrie_size(call.res.trie) >= 2

RECURSIVE InsertReaches(_, _)
InsertReaches(node, flag) ==
    IF node.t # "C" THEN Some([node |-> node, flag |-> flag])
    ELSE IF ~bit_present(node.bitmap, Flag_mask(flag.v)) THEN None
    ELSE InsertReaches(
            node.nodes[array_index(node.bitmap, Flag_mask(flag.v)) + 1],
            Flag_next(flag.v))

\* insert of key reaches a chain with no flag left, and the chain does not
\* hold the key
Exhausted(self, key) ==
    LET at == InsertReaches(self.root, Some(Flag_new(hasher(key)))) IN
    /\ at # None
    /\ at.v.node.t = "L"
    /\ at.v.flag = None
    /\ key \notin ChainKeys(at.v.node)

\* C19: hash exhaustion is never an error.  An insert that reaches a
\* collision chain with the hash bits used up (key_flag = None) and whose
\* key the chain does not hold returns a trie in which the chain is one entry
\* longer and holds the key; it does not panic or fail.
C19_HashExhaustion ==
    (call.name = "insert" /\ Exhausted(trie, call.key))
        => /\ call.res.t = "Ok"
           /\ \E c \in Chains(trie.root) :
                /\ hasher(c.key) = hasher(call.key)
                /\ InChain(call.res.trie, call.key, ChainLen(c) + 1)

\* the keys of a chain, head first
RECURSIVE ChainSeq(_)
ChainSeq(c) ==
    IF c.t = "L" THEN <<c.key>> \o ChainSeq(c.next) ELSE <<c.key>>

\* the key of the left operand's entry a reduction stands for, NoKey for the
\* reduction of a call of right
LeftKey(r) == IF r[1] = "right" THEN NoKey ELSE r[2]

RECURSIVE LeftKeys(_)
LeftKeys(reduced) ==
    IF reduced = <<>> THEN <<>>
    ELSE <<LeftKey(Head(reduced))>> \o LeftKeys(Tail(reduced))

\* the keys a call's reduction stands for, in the order it combines them
\* (the reduction of a transform callback is its key)
ReducedKeys ==
    IF call.name = "transform" THEN call.res.reduced
    ELSE LeftKeys(call.res.reduced)

\* the reductions of the entries of every chain of the trie called on are
\* combined in the order of the chain, head first
HeadFirst ==
    \A c \in Chains(trie.root) :
        SelectSeq(ReducedKeys, LAMBDA k : k \in ChainKeys(c)) = ChainSeq(c)

\* both operands hold a collision chain of the hash
ChainMeetsChain(hash) ==
    /\ \E c \in Chains(trie.root) : hasher(c.key) = hash
    /\ \E c \in Chains(other.root) : hasher(c.key) = hash

\* where chain meets chain, no reduction of a call of right stands before
\* the reduction of an entry of the left operand's chain
LeftBeforeRight ==
    \A i, j \in 1 .. Len(call.res.reduced) :
        LET a == call.res.reduced[i]
            b == call.res.reduced[j] IN
        (/\ i < j
         /\ a[1] = "right"
         /\ b[1] \in {"left", "both"}
         /\ hasher(a[2]) = hasher(b[2]))
            => ~ChainMeetsChain(hasher(a[2]))

\* C20: reduction order.  transform, transmute and joint_transmute combine
\* the reductions of the entries e1..en of a collision chain, head first, as
\* reduce(r1, reduce(r2, .. reduce(r(n-1), rn))), and joint_transmute puts the
\* reductions of the left operand's entries before (as the left argument of
\* reduce) those of the right operand's leftover entries.
C20_ReductionOrder ==
    /\ (call.name \in {"transform", "transmute"}) => HeadFirst
    /\ (call.name = "joint_transmute" /\ call.res.t = "Ok") => LeftBeforeRight

====
